---- MODULE Spec2Model ----
(***************************************************************************)
(* Dimensional-analysis core of qsim-core: units.Dimension, units.Value    *)
(* and vector.Vector3.                                                     *)
(*                                                                         *)
(* A Dimension is a record of seven int8 exponents; exponent arithmetic    *)
(* keeps the width of int8 (two's complement wrap).  A float64 magnitude   *)
(* is modelled as an extended rational [s, n, d] meaning s*n/d, with       *)
(* signed zeros (n = 0, d = 1), signed infinities (n = 1, d = 0) and NaN   *)
(* (n = 0, d = 0).  Arithmetic on the finite values is exact, which is     *)
(* what float64 does on the small integers and simple fractions that the   *)
(* bounded inputs produce; the square root of a non-square is rounded to   *)
(* a grid of SqrtGrid steps per unit.                                      *)
(***************************************************************************)
EXTENDS Integers, Sequences, FiniteSets, TLC

VARIABLES opA, opB, vecU, vecV, res, steps

vars == <<opA, opB, vecU, vecV, res, steps>>

(***************************************************************************)
(* Bounds of the model.                                                    *)
(***************************************************************************)
\* input magnitudes are the integers -MaxMag..MaxMag (and NaN, +Inf)
MaxMag == 2
\* Power is called with n in -MaxPow..MaxPow
MaxPow == 3
\* the rounding grid of the square root of a non-square
SqrtGrid == 4
\* the grid is dropped for roots of integers above SqrtCoarse
SqrtCoarse == 1000000
\* a chain goes on while the numerators and denominators of its operands
\* are at most MagCap
MagCap == 4
\* length of a chain of vector operations fed back into the operands
MaxChain == 2
\* almostEqual is also called with the tolerances 1e-0 .. 1e-MaxTolDigits
MaxTolDigits == 1

\* threads calling operations on the same operands
MaxThreads == 2

\* width of a Dimension exponent (int8)
Int8Bits == 8
\* the tolerance of Value.Equal is 1e-14
ToleranceDigits == 14

(***************************************************************************)
(* int8 arithmetic.                                                        *)
(***************************************************************************)
RECURSIVE Pow2(_)
Pow2(w) == IF w = 0 THEN 1 ELSE 2 * Pow2(w - 1)

Int8Min == -Pow2(Int8Bits - 1)
Int8Max == Pow2(Int8Bits - 1) - 1

\* int8 arithmetic that saturates at the ends of the range instead
Saturate8(x) == IF x > Int8Max THEN Int8Max ELSE IF x < Int8Min THEN Int8Min ELSE x

\* the int8 that Go keeps of an integer result: its low 8 bits, signed
Wrap8(x) == ((x - Int8Min) % Pow2(Int8Bits)) + Int8Min

\* Go's integer / and % truncate toward zero (divisor > 0 here)
GoQuot(x, y) == IF x >= 0 THEN x \div y ELSE -((-x) \div y)
GoRem(x, y) == x - y * GoQuot(x, y)

(***************************************************************************)
(* float64 magnitudes as extended rationals.                               *)
(***************************************************************************)
RECURSIVE GCD(_, _)
GCD(x, y) == IF y = 0 THEN x ELSE GCD(y, x % y)

F(s, n, d) == [s |-> s, n |-> n, d |-> d]
NaN == F(1, 0, 0)
PosInf == F(1, 1, 0)
NegInf == F(-1, 1, 0)
PosZero == F(1, 0, 1)
NegZero == F(-1, 0, 1)

IsNaN(x) == x.n = 0 /\ x.d = 0
IsInf(x) == x.n = 1 /\ x.d = 0
IsZeroF(x) == x.n = 0 /\ x.d = 1
IsFinite(x) == x.d > 0

\* the float64 of a small integer literal
FInt(i) == IF i < 0 THEN F(-1, -i, 1) ELSE F(1, i, 1)

\* s*n/d in lowest terms (n, d > 0)
Reduce(s, n, d) == LET g == GCD(n, d) IN F(s, n \div g, d \div g)

\* Go's == on float64: NaN equals nothing, -0 equals +0
FEq(x, y) ==
    /\ ~IsNaN(x)
    /\ ~IsNaN(y)
    /\ \/ x = y
       \/ IsZeroF(x) /\ IsZeroF(y)

\* unary minus: flips the sign bit (NaN stays NaN)
FNeg(x) == IF IsNaN(x) THEN NaN ELSE F(-x.s, x.n, x.d)

\* math.Abs
FAbs(x) == IF IsNaN(x) THEN NaN ELSE F(1, x.n, x.d)

\* x * y
FMul(x, y) ==
    IF IsNaN(x) \/ IsNaN(y) THEN NaN
    ELSE IF (IsInf(x) /\ IsZeroF(y)) \/ (IsZeroF(x) /\ IsInf(y)) THEN NaN
    ELSE IF IsInf(x) \/ IsInf(y) THEN F(x.s * y.s, 1, 0)
    ELSE IF IsZeroF(x) \/ IsZeroF(y) THEN F(x.s * y.s, 0, 1)
    ELSE Reduce(x.s * y.s, x.n * y.n, x.d * y.d)

\* x + y (round to nearest: an exact zero sum is +0 unless both are -0)
FAdd(x, y) ==
    IF IsNaN(x) \/ IsNaN(y) THEN NaN
    ELSE IF IsInf(x) /\ IsInf(y) THEN (IF x.s = y.s THEN x ELSE NaN)
    ELSE IF IsInf(x) THEN x
    ELSE IF IsInf(y) THEN y
    ELSE LET num == x.s * x.n * y.d + y.s * y.n * x.d
             den == x.d * y.d
         IN  IF num = 0
             THEN (IF IsZeroF(x) /\ IsZeroF(y) /\ x.s = -1 /\ y.s = -1
                   THEN NegZero ELSE PosZero)
             ELSE IF num < 0 THEN Reduce(-1, -num, den)
             ELSE Reduce(1, num, den)

\* x - y
FSub(x, y) == FAdd(x, FNeg(y))

\* x / y
FDiv(x, y) ==
    IF IsNaN(x) \/ IsNaN(y) THEN NaN
    ELSE IF (IsInf(x) /\ IsInf(y)) \/ (IsZeroF(x) /\ IsZeroF(y)) THEN NaN
    ELSE IF IsInf(x) \/ IsZeroF(y) THEN F(x.s * y.s, 1, 0)
    ELSE IF IsInf(y) \/ IsZeroF(x) THEN F(x.s * y.s, 0, 1)
    ELSE Reduce(x.s * y.s, x.n * y.d, x.d * y.n)

RECURSIVE ISqrtIn(_, _, _)
\* bisection: lo * lo <= m < hi * hi
ISqrtIn(m, lo, hi) ==
    IF hi - lo <= 1 THEN lo
    ELSE LET mid == (lo + hi) \div 2
         IN  IF mid * mid <= m THEN ISqrtIn(m, mid, hi) ELSE ISqrtIn(m, lo, mid)

\* floor of the square root of a natural number below 2^31
ISqrt(m) == ISqrtIn(m, 0, 46341)

\* math.Sqrt: NaN for a negative argument, -0 for -0, +Inf for +Inf.  The
\* root of n/d is sqrt(n*d)/d: exact for a square, and otherwise rounded to
\* the nearest multiple of 1/(d*SqrtGrid), or of 1/d once n*d is so large
\* that this is the finer relative precision
FSqrt(x) ==
    IF IsNaN(x) THEN NaN
    ELSE IF IsZeroF(x) THEN x
    ELSE IF x.s = -1 THEN NaN
    ELSE IF IsInf(x) THEN PosInf
    ELSE LET m == x.n * x.d
             g == IF m <= SqrtCoarse THEN SqrtGrid ELSE 1
             mg == m * g * g
             q == ISqrt(mg)
             qn == IF mg - q * q > q THEN q + 1 ELSE q
         IN  IF q * q = mg THEN Reduce(1, q, x.d * g) ELSE Reduce(1, qn, x.d * g)

RECURSIVE IntPow(_, _)
IntPow(x, e) == IF e = 0 THEN 1 ELSE x * IntPow(x, e - 1)

IsOdd(i) == i % 2 = 1

\* math.Pow(x, float64(p)) for an integer p
FPow(x, p) ==
    IF p = 0 THEN FInt(1)
    ELSE IF IsNaN(x) THEN NaN
    ELSE LET e == IF p < 0 THEN -p ELSE p
             sg == IF IsOdd(e) THEN x.s ELSE 1
         IN  IF IsZeroF(x) THEN (IF p < 0 THEN F(sg, 1, 0) ELSE F(sg, 0, 1))
             ELSE IF IsInf(x) THEN (IF p < 0 THEN F(sg, 0, 1) ELSE F(sg, 1, 0))
             ELSE IF p < 0 THEN Reduce(sg, IntPow(x.d, e), IntPow(x.n, e))
             ELSE Reduce(sg, IntPow(x.n, e), IntPow(x.d, e))

\* Go's < on float64: false when either side is NaN, -0 is not below +0
FLt(x, y) ==
    IF IsNaN(x) \/ IsNaN(y) THEN FALSE
    ELSE IF IsInf(x) THEN x.s = -1 /\ y # x
    ELSE IF IsInf(y) THEN y.s = 1
    ELSE x.s * x.n * y.d < y.s * y.n * x.d

RECURSIVE BelowPow10(_, _, _)
\* n/d < 10^-k for naturals n, d with d > 0, without leaving 32 bits
BelowPow10(n, d, k) ==
    IF k = 0 THEN n < d
    ELSE IF n = 0 THEN TRUE
    ELSE IF n > (d - 1) \div 10 THEN FALSE
    ELSE BelowPow10(n * 10, d, k - 1)

\* x < 1e-k on float64, for the tolerance literal 1e-14 of Value.Equal
FLtPow10(x, k) ==
    IF IsNaN(x) THEN FALSE
    ELSE IF IsInf(x) THEN x.s = -1
    ELSE IF x.s = -1 /\ x.n > 0 THEN TRUE
    ELSE BelowPow10(x.n, x.d, k)

\* almostEqual without the test diff < tolerance in its second condition
almostEqualRelative(a, b, k) ==
    IF FEq(a, b) THEN TRUE
    ELSE LET diff == FAbs(FSub(a, b))
         IN  IF FEq(a, FInt(0)) \/ FEq(b, FInt(0))
             THEN FLtPow10(diff, k)
             ELSE FLtPow10(FDiv(diff, FAdd(FAbs(a), FAbs(b))), k)

\* almostEqual(a, b, 1e-k)
almostEqual(a, b, k) ==
    IF FEq(a, b) THEN TRUE
    ELSE LET diff == FAbs(FSub(a, b))
         IN  IF FEq(a, FInt(0)) \/ FEq(b, FInt(0)) \/ FLtPow10(diff, k)
             THEN FLtPow10(diff, k)
             ELSE FLtPow10(FDiv(diff, FAdd(FAbs(a), FAbs(b))), k)

\* math.Acos in units of pi/2: NaN outside [-1, 1] and for NaN; exact at
\* acos(1) = 0, acos(0) = pi/2 and acos(-1) = pi, and the chord between
\* these elsewhere, which keeps acos decreasing from pi to 0
FAcos(x) ==
    IF IsNaN(x) \/ FLt(FInt(1), x) \/ FLt(x, FInt(-1)) THEN NaN
    ELSE FSub(FInt(1), x)

(***************************************************************************)
(* units.Dimension and units.Value.                                        *)
(***************************************************************************)
Dimension(l, m, t, i, th, n, j) ==
    [L |-> l, M |-> m, T |-> t, I |-> i, Th |-> th, N |-> n, J |-> j]

\* Dimension{}: the zero value, dimensionless
DimensionZero == Dimension(0, 0, 0, 0, 0, 0, 0)

NewValue(value, dim) == [value |-> value, dim |-> dim]

\* Value{}: the zero value returned beside an error
ValueZero == NewValue(PosZero, DimensionZero)

\* a Go error is modelled by the format that built its message and the
\* dimensions rendered into it; nil is the absence of an error
NilErr == [kind |-> "nil", dims |-> <<>>]
Errorf(kind, dims) == [kind |-> kind, dims |-> dims]

Val(v) == v.value

Dim(v) == v.dim

\* Value.Equal: the same dimension, and magnitudes within the tolerance
Equal(v, other) ==
    v.dim = other.dim /\ almostEqual(v.value, other.value, ToleranceDigits)

\* Add without its dimension check
AddUnchecked(v, other) ==
    [val |-> NewValue(FAdd(v.value, other.value), v.dim), err |-> NilErr]

\* Add whose sum takes the receiver twice
AddDoublesSelf(v, other) ==
    IF v.dim # other.dim
    THEN [val |-> ValueZero, err |-> Errorf("add", <<v.dim, other.dim>>)]
    ELSE [val |-> NewValue(FAdd(v.value, v.value), v.dim), err |-> NilErr]

Add(v, other) ==
    IF v.dim # other.dim
    THEN [val |-> ValueZero, err |-> Errorf("add", <<v.dim, other.dim>>)]
    ELSE [val |-> NewValue(FAdd(v.value, other.value), v.dim), err |-> NilErr]

Subtract(v, other) ==
    IF v.dim # other.dim
    THEN [val |-> ValueZero, err |-> Errorf("subtract", <<v.dim, other.dim>>)]
    ELSE [val |-> NewValue(FSub(v.value, other.value), v.dim), err |-> NilErr]

Multiply(v, other) ==
    NewValue(FMul(v.value, other.value),
             Dimension(Wrap8(v.dim.L + other.dim.L),
                       Wrap8(v.dim.M + other.dim.M),
                       Wrap8(v.dim.T + other.dim.T),
                       Wrap8(v.dim.I + other.dim.I),
                       Wrap8(v.dim.Th + other.dim.Th),
                       Wrap8(v.dim.N + other.dim.N),
                       Wrap8(v.dim.J + other.dim.J)))

\* Divide subtracting the exponents the wrong way round
DivideSwapped(v, other) ==
    NewValue(FDiv(v.value, other.value),
             Dimension(Wrap8(other.dim.L - v.dim.L),
                       Wrap8(other.dim.M - v.dim.M),
                       Wrap8(other.dim.T - v.dim.T),
                       Wrap8(other.dim.I - v.dim.I),
                       Wrap8(other.dim.Th - v.dim.Th),
                       Wrap8(other.dim.N - v.dim.N),
                       Wrap8(other.dim.J - v.dim.J)))

Divide(v, other) ==
    NewValue(FDiv(v.value, other.value),
             Dimension(Wrap8(v.dim.L - other.dim.L),
                       Wrap8(v.dim.M - other.dim.M),
                       Wrap8(v.dim.T - other.dim.T),
                       Wrap8(v.dim.I - other.dim.I),
                       Wrap8(v.dim.Th - other.dim.Th),
                       Wrap8(v.dim.N - other.dim.N),
                       Wrap8(v.dim.J - other.dim.J)))

Scale(v, scalar) == NewValue(FMul(v.value, scalar), v.dim)

\* Power whose exponent products stop at the ends of int8
PowerSaturates(v, n) ==
    NewValue(FPow(v.value, n),
             Dimension(Saturate8(v.dim.L * Wrap8(n)),
                       Saturate8(v.dim.M * Wrap8(n)),
                       Saturate8(v.dim.T * Wrap8(n)),
                       Saturate8(v.dim.I * Wrap8(n)),
                       Saturate8(v.dim.Th * Wrap8(n)),
                       Saturate8(v.dim.N * Wrap8(n)),
                       Saturate8(v.dim.J * Wrap8(n))))

\* int8(n) keeps the low 8 bits of n; the int8 product wraps again
Power(v, n) ==
    NewValue(FPow(v.value, n),
             Dimension(Wrap8(v.dim.L * Wrap8(n)),
                       Wrap8(v.dim.M * Wrap8(n)),
                       Wrap8(v.dim.T * Wrap8(n)),
                       Wrap8(v.dim.I * Wrap8(n)),
                       Wrap8(v.dim.Th * Wrap8(n)),
                       Wrap8(v.dim.N * Wrap8(n)),
                       Wrap8(v.dim.J * Wrap8(n))))

\* Sqrt whose parity check forgets the last exponent, J
SqrtNoJ(v) ==
    IF \/ GoRem(v.dim.L, 2) # 0
       \/ GoRem(v.dim.M, 2) # 0
       \/ GoRem(v.dim.T, 2) # 0
       \/ GoRem(v.dim.I, 2) # 0
       \/ GoRem(v.dim.Th, 2) # 0
       \/ GoRem(v.dim.N, 2) # 0
    THEN [val |-> ValueZero, err |-> Errorf("sqrt", <<v.dim>>)]
    ELSE [val |-> NewValue(FSqrt(v.value),
                           Dimension(GoQuot(v.dim.L, 2),
                                     GoQuot(v.dim.M, 2),
                                     GoQuot(v.dim.T, 2),
                                     GoQuot(v.dim.I, 2),
                                     GoQuot(v.dim.Th, 2),
                                     GoQuot(v.dim.N, 2),
                                     GoQuot(v.dim.J, 2))),
          err |-> NilErr]

Sqrt(v) ==
    IF \/ GoRem(v.dim.L, 2) # 0
       \/ GoRem(v.dim.M, 2) # 0
       \/ GoRem(v.dim.T, 2) # 0
       \/ GoRem(v.dim.I, 2) # 0
       \/ GoRem(v.dim.Th, 2) # 0
       \/ GoRem(v.dim.N, 2) # 0
       \/ GoRem(v.dim.J, 2) # 0
    THEN [val |-> ValueZero, err |-> Errorf("sqrt", <<v.dim>>)]
    ELSE [val |-> NewValue(FSqrt(v.value),
                           Dimension(GoQuot(v.dim.L, 2),
                                     GoQuot(v.dim.M, 2),
                                     GoQuot(v.dim.T, 2),
                                     GoQuot(v.dim.I, 2),
                                     GoQuot(v.dim.Th, 2),
                                     GoQuot(v.dim.N, 2),
                                     GoQuot(v.dim.J, 2))),
          err |-> NilErr]

\* Abs returning a Value literal without its dim field
AbsDropsDim(v) == NewValue(FAbs(v.value), DimensionZero)

Abs(v) == NewValue(FAbs(v.value), v.dim)

Negate(v) == NewValue(FNeg(v.value), v.dim)

IsDimensionless(v) == v.dim = DimensionZero

Dimensionless(value) == NewValue(value, DimensionZero)

\* the decimal digits fmt.Sprintf("%d", ...) writes
DigitStr == <<"0", "1", "2", "3", "4", "5", "6", "7", "8", "9">>

RECURSIVE Utoa(_)
Utoa(n) == IF n < 10 THEN DigitStr[n + 1] ELSE Utoa(n \div 10) \o DigitStr[(n % 10) + 1]

\* fmt.Sprintf("%d", n)
Itoa(n) == IF n < 0 THEN "-" \o Utoa(-n) ELSE Utoa(n)

\* parts = append(parts, fmt.Sprintf("X^%d", e)) under if e != 0
AppendPart(parts, symbol, e) ==
    IF e # 0 THEN Append(parts, symbol \o "^" \o Itoa(e)) ELSE parts

RECURSIVE JoinParts(_, _, _)
\* the loop over parts: a space before every part but the first
JoinParts(result, parts, i) ==
    IF i > Len(parts) THEN result
    ELSE JoinParts(result \o (IF i > 1 THEN " " ELSE "") \o parts[i], parts, i + 1)

\* Dimension.String with no branch for the exponent J
DimensionStringSkipsJ(d) ==
    IF d = DimensionZero THEN "[1]"
    ELSE LET p1 == AppendPart(<<>>, "L", d.L)
             p2 == AppendPart(p1, "M", d.M)
             p3 == AppendPart(p2, "T", d.T)
             p4 == AppendPart(p3, "I", d.I)
             p5 == AppendPart(p4, "Θ", d.Th)
             p6 == AppendPart(p5, "N", d.N)
         IN  JoinParts("[", p6, 1) \o "]"

DimensionString(d) ==
    IF d = DimensionZero THEN "[1]"
    ELSE LET p1 == AppendPart(<<>>, "L", d.L)
             p2 == AppendPart(p1, "M", d.M)
             p3 == AppendPart(p2, "T", d.T)
             p4 == AppendPart(p3, "I", d.I)
             p5 == AppendPart(p4, "Θ", d.Th)
             p6 == AppendPart(p5, "N", d.N)
             p7 == AppendPart(p6, "J", d.J)
         IN  JoinParts("[", p7, 1) \o "]"

(***************************************************************************)
(* Named unit constructors used by the typed vector constructors.  The     *)
(* unit types (Length, Velocity, ...) embed one Value and add no state.    *)
(***************************************************************************)
Meter(value) == NewValue(value, Dimension(1, 0, 0, 0, 0, 0, 0))

Second(value) == NewValue(value, Dimension(0, 0, 1, 0, 0, 0, 0))

MeterPerSecond(value) == NewValue(value, Dimension(1, 0, -1, 0, 0, 0, 0))

MeterPerSecond2(value) == NewValue(value, Dimension(1, 0, -2, 0, 0, 0, 0))

Newton(value) == NewValue(value, Dimension(1, 1, -2, 0, 0, 0, 0))

(***************************************************************************)
(* vector.Vector3.                                                         *)
(***************************************************************************)
\* the struct literal Vector3{X: x, Y: y, Z: z} (the fields are exported)
Vector3(x, y, z) == [X |-> x, Y |-> y, Z |-> z]

\* Vector3{}: the zero value returned beside an error
Vector3Zero == Vector3(ValueZero, ValueZero, ValueZero)

\* New comparing x with y only
NewChecksXY(x, y, z) ==
    IF Dim(x) # Dim(y)
    THEN [vec |-> Vector3Zero, err |-> Errorf("new", <<Dim(x), Dim(y), Dim(z)>>)]
    ELSE [vec |-> Vector3(x, y, z), err |-> NilErr]

New(x, y, z) ==
    IF Dim(x) # Dim(y) \/ Dim(x) # Dim(z)
    THEN [vec |-> Vector3Zero, err |-> Errorf("new", <<Dim(x), Dim(y), Dim(z)>>)]
    ELSE [vec |-> Vector3(x, y, z), err |-> NilErr]

NewPosition(x, y, z) == Vector3(x, y, z)

NewVelocity(vx, vy, vz) == Vector3(vx, vy, vz)

NewAcceleration(ax, ay, az) == Vector3(ax, ay, az)

NewForce(fx, fy, fz) == Vector3(fx, fy, fz)

Zero(dim) ==
    Vector3(NewValue(FInt(0), dim), NewValue(FInt(0), dim), NewValue(FInt(0), dim))

UnitX(dim) ==
    Vector3(NewValue(FInt(1), dim), NewValue(FInt(0), dim), NewValue(FInt(0), dim))

UnitY(dim) ==
    Vector3(NewValue(FInt(0), dim), NewValue(FInt(1), dim), NewValue(FInt(0), dim))

UnitZ(dim) ==
    Vector3(NewValue(FInt(0), dim), NewValue(FInt(1), dim), NewValue(FInt(0), dim))

\* Vector3.Dim reads the X component only
Vector3Dim(v) == Dim(v.X)

\* Vector3.Add reporting the last failing pair instead of the first
Vector3AddLastError(v, other) ==
    LET x == Add(v.X, other.X)
        y == Add(v.Y, other.Y)
        z == Add(v.Z, other.Z)
    IN  IF z.err # NilErr THEN [vec |-> Vector3Zero, err |-> z.err]
        ELSE IF y.err # NilErr THEN [vec |-> Vector3Zero, err |-> y.err]
        ELSE IF x.err # NilErr THEN [vec |-> Vector3Zero, err |-> x.err]
        ELSE [vec |-> Vector3(x.val, y.val, z.val), err |-> NilErr]

Vector3Add(v, other) ==
    LET x == Add(v.X, other.X)
        y == Add(v.Y, other.Y)
        z == Add(v.Z, other.Z)
    IN  IF x.err # NilErr THEN [vec |-> Vector3Zero, err |-> x.err]
        ELSE IF y.err # NilErr THEN [vec |-> Vector3Zero, err |-> y.err]
        ELSE IF z.err # NilErr THEN [vec |-> Vector3Zero, err |-> z.err]
        ELSE [vec |-> Vector3(x.val, y.val, z.val), err |-> NilErr]

Vector3Subtract(v, other) ==
    LET x == Subtract(v.X, other.X)
        y == Subtract(v.Y, other.Y)
        z == Subtract(v.Z, other.Z)
    IN  IF x.err # NilErr THEN [vec |-> Vector3Zero, err |-> x.err]
        ELSE IF y.err # NilErr THEN [vec |-> Vector3Zero, err |-> y.err]
        ELSE IF z.err # NilErr THEN [vec |-> Vector3Zero, err |-> z.err]
        ELSE [vec |-> Vector3(x.val, y.val, z.val), err |-> NilErr]

\* Vector3.Scale leaving the Z component unscaled
Vector3ScaleKeepsZ(v, scalar) ==
    Vector3(Scale(v.X, scalar), Scale(v.Y, scalar), v.Z)

Vector3Scale(v, scalar) ==
    Vector3(Scale(v.X, scalar), Scale(v.Y, scalar), Scale(v.Z, scalar))

Vector3Negate(v) == Vector3(Negate(v.X), Negate(v.Y), Negate(v.Z))

\* the two Add calls of Dot; Dot drops the error of each and keeps its value
DotAdd1(v, other) == Add(Multiply(v.X, other.X), Multiply(v.Y, other.Y))

DotAdd2(v, other) == Add(DotAdd1(v, other).val, Multiply(v.Z, other.Z))

\* Dot returning at the first Add that fails
DotStopsAtFailure(v, other) ==
    IF DotAdd1(v, other).err # NilErr THEN ValueZero ELSE DotAdd2(v, other).val

Dot(v, other) == DotAdd2(v, other).val

\* the three Subtract calls of Cross; Cross drops the error of each
CrossX(v, other) == Subtract(Multiply(v.Y, other.Z), Multiply(v.Z, other.Y))

CrossY(v, other) == Subtract(Multiply(v.Z, other.X), Multiply(v.X, other.Z))

CrossZ(v, other) == Subtract(Multiply(v.X, other.Y), Multiply(v.Y, other.X))

\* Cross whose X component forgets the factor other.Y of its second product
CrossDropsFactor(v, other) ==
    Vector3(Subtract(Multiply(v.Y, other.Z), v.Z).val,
            CrossY(v, other).val, CrossZ(v, other).val)

\* Cross whose X component adds its two products
CrossXAdds(v, other) ==
    Vector3(Add(Multiply(v.Y, other.Z), Multiply(v.Z, other.Y)).val,
            CrossY(v, other).val, CrossZ(v, other).val)

\* Cross whose Z component subtracts the wrong way round
CrossZSwapped(v, other) ==
    Vector3(CrossX(v, other).val, CrossY(v, other).val,
            Subtract(Multiply(v.Y, other.X), Multiply(v.X, other.Y)).val)

Cross(v, other) ==
    Vector3(CrossX(v, other).val, CrossY(v, other).val, CrossZ(v, other).val)

MagnitudeSquared(v) == Dot(v, v)

Magnitude(v) == Sqrt(MagnitudeSquared(v))

Normalize(v) ==
    LET mag == Magnitude(v)
    IN  IF mag.err # NilErr THEN [vec |-> Vector3Zero, err |-> mag.err]
        ELSE IF FEq(Val(mag.val), FInt(0))
        THEN [vec |-> Vector3Zero, err |-> Errorf("normalize", <<>>)]
        ELSE [vec |-> Vector3(Divide(v.X, mag.val),
                              Divide(v.Y, mag.val),
                              Divide(v.Z, mag.val)),
              err |-> NilErr]

\* ProjectOnto dividing by the squared magnitude of v instead of other's
ProjectOntoOwnNorm(v, other) ==
    LET dotProduct == Dot(v, other)
        otherMagSquared == MagnitudeSquared(v)
        scalar == Divide(dotProduct, otherMagSquared)
    IN  IF FEq(Val(otherMagSquared), FInt(0))
        THEN [vec |-> Vector3Zero, err |-> Errorf("project", <<>>)]
        ELSE [vec |-> Vector3(Multiply(other.X, scalar),
                              Multiply(other.Y, scalar),
                              Multiply(other.Z, scalar)),
              err |-> NilErr]

ProjectOnto(v, other) ==
    LET dotProduct == Dot(v, other)
        otherMagSquared == MagnitudeSquared(other)
        scalar == Divide(dotProduct, otherMagSquared)
    IN  IF FEq(Val(otherMagSquared), FInt(0))
        THEN [vec |-> Vector3Zero, err |-> Errorf("project", <<>>)]
        ELSE [vec |-> Vector3(Multiply(other.X, scalar),
                              Multiply(other.Y, scalar),
                              Multiply(other.Z, scalar)),
              err |-> NilErr]

\* AngleBetween returns (float64, error); the angle is in units of pi/2
AngleBetween(v, other) ==
    LET dotProduct == Dot(v, other)
        magV == Magnitude(v)
        magOther == Magnitude(other)
        magProduct == Multiply(magV.val, magOther.val)
        cosTheta == Val(Divide(dotProduct, magProduct))
        clamped == IF FLt(FInt(1), cosTheta) THEN FInt(1)
                   ELSE IF FLt(cosTheta, FInt(-1)) THEN FInt(-1)
                   ELSE cosTheta
    IN  IF magV.err # NilErr THEN [f |-> PosZero, err |-> magV.err]
        ELSE IF magOther.err # NilErr THEN [f |-> PosZero, err |-> magOther.err]
        ELSE IF FEq(Val(magProduct), FInt(0))
        THEN [f |-> PosZero, err |-> Errorf("angle", <<>>)]
        ELSE [f |-> FAcos(clamped), err |-> NilErr]

IsZero(v) ==
    FEq(Val(v.X), FInt(0)) /\ FEq(Val(v.Y), FInt(0)) /\ FEq(Val(v.Z), FInt(0))

\* IsParallel comparing with <= instead of <
IsParallelLeq(v, other, tolerance) ==
    LET magSquared == FAbs(Val(MagnitudeSquared(Cross(v, other))))
    IN  FLt(magSquared, tolerance) \/ FEq(magSquared, tolerance)

IsParallel(v, other, tolerance) ==
    FLt(FAbs(Val(MagnitudeSquared(Cross(v, other)))), tolerance)

IsPerpendicular(v, other, tolerance) ==
    FLt(FAbs(Val(Dot(v, other))), tolerance)

(***************************************************************************)
(* Inputs.                                                                 *)
(***************************************************************************)
\* magnitudes handed to NewValue
Mags == {FInt(i) : i \in -MaxMag..MaxMag} \cup {NaN, PosInf}

\* exponents handed to Dimension{...}: the ends of int8, odd and even ones
ExpSample == {Int8Min, -1, 2, 100, Int8Max}

\* the Dimension with exponent e at base dimension i and zero elsewhere
AxisDim(i, e) ==
    Dimension(IF i = 1 THEN e ELSE 0, IF i = 2 THEN e ELSE 0,
              IF i = 3 THEN e ELSE 0, IF i = 4 THEN e ELSE 0,
              IF i = 5 THEN e ELSE 0, IF i = 6 THEN e ELSE 0,
              IF i = 7 THEN e ELSE 0)

AxisDims == {AxisDim(i, e) : i \in 1..7, e \in ExpSample}

\* dimensionless, length, velocity squared (all even), energy
NamedDims ==
    {DimensionZero, Dim(Meter(PosZero)), Dimension(2, 0, -2, 0, 0, 0, 0),
     Dimension(2, 1, -2, 0, 0, 0, 0)}

\* the last two: exponents whose sum and difference, 32 and -32, are the
\* largest that operands with exponents in -16..16 produce
Values ==
    {NewValue(m, d) : m \in Mags, d \in NamedDims}
        \cup {NewValue(FInt(1), d) : d \in AxisDims}
        \cup {NewValue(FInt(1), AxisDim(1, 16)), NewValue(FInt(1), AxisDim(1, -16))}

Powers == -MaxPow..MaxPow

Scalars == {FInt(-1), PosZero, FInt(MaxMag), NaN}

(***************************************************************************)
(* The record of the last call: the operation, its integer and float       *)
(* arguments, and what it returned.                                        *)
(***************************************************************************)
Result(op, n, k, err, val, vec) ==
    [op |-> op, n |-> n, k |-> k, err |-> err, val |-> val, vec |-> vec,
     f |-> PosZero, ok |-> FALSE, str |-> ""]

NoCall == Result("none", 0, PosZero, NilErr, ValueZero, Vector3Zero)

ValueCall(op, r) == Result(op, 0, PosZero, r.err, r.val, Vector3Zero)

VectorCall(op, r) == Result(op, 0, PosZero, r.err, ValueZero, r.vec)

\* a call returning (float64, error)
FloatCall(op, r) == [Result(op, 0, PosZero, r.err, ValueZero, Vector3Zero) EXCEPT !.f = r.f]

\* a call returning a string
StringCall(op, str) ==
    [Result(op, 0, PosZero, NilErr, ValueZero, Vector3Zero) EXCEPT !.str = str]

\* a call with a float64 argument that returns a bool
BoolCall(op, k, b) == [Result(op, 0, k, NilErr, ValueZero, Vector3Zero) EXCEPT !.ok = b]

(***************************************************************************)
(* Value operations applied to the operands opA, opB.                      *)
(***************************************************************************)
\* each run draws its operands and makes one call on them
Idle == res = NoCall

InitValue ==
    /\ opA \in Values
    /\ opB \in Values
    /\ vecU = Vector3Zero
    /\ vecV = Vector3Zero
    /\ res = NoCall
    /\ steps = 0

CallAdd ==
    /\ Idle
    /\ res' = ValueCall("Add", Add(opA, opB))
    /\ UNCHANGED <<opA, opB, vecU, vecV, steps>>

CallSubtract ==
    /\ Idle
    /\ res' = ValueCall("Subtract", Subtract(opA, opB))
    /\ UNCHANGED <<opA, opB, vecU, vecV, steps>>

CallMultiply ==
    /\ Idle
    /\ res' = Result("Multiply", 0, PosZero, NilErr, Multiply(opA, opB), Vector3Zero)
    /\ UNCHANGED <<opA, opB, vecU, vecV, steps>>

CallDivide ==
    /\ Idle
    /\ res' = Result("Divide", 0, PosZero, NilErr, Divide(opA, opB), Vector3Zero)
    /\ UNCHANGED <<opA, opB, vecU, vecV, steps>>

CallScale ==
    /\ Idle
    /\ \E scalar \in Scalars :
          res' = Result("Scale", 0, scalar, NilErr, Scale(opA, scalar), Vector3Zero)
    /\ UNCHANGED <<opA, opB, vecU, vecV, steps>>

CallPower ==
    /\ Idle
    /\ \E n \in Powers :
          res' = Result("Power", n, PosZero, NilErr, Power(opA, n), Vector3Zero)
    /\ UNCHANGED <<opA, opB, vecU, vecV, steps>>

CallSqrt ==
    /\ Idle
    /\ res' = ValueCall("Sqrt", Sqrt(opA))
    /\ UNCHANGED <<opA, opB, vecU, vecV, steps>>

CallAbs ==
    /\ Idle
    /\ res' = Result("Abs", 0, PosZero, NilErr, Abs(opA), Vector3Zero)
    /\ UNCHANGED <<opA, opB, vecU, vecV, steps>>

CallNegate ==
    /\ Idle
    /\ res' = Result("Negate", 0, PosZero, NilErr, Negate(opA), Vector3Zero)
    /\ UNCHANGED <<opA, opB, vecU, vecV, steps>>

\* a second call on the result of the first: v.Power(n).Sqrt()
CallSqrtOfPower ==
    /\ res.op = "Power"
    /\ res' = [ValueCall("Power.Sqrt", Sqrt(res.val)) EXCEPT !.n = res.n]
    /\ UNCHANGED <<opA, opB, vecU, vecV, steps>>

\* a second call on the result of the first: a.Multiply(b).Divide(b)
CallDivideOfProduct ==
    /\ res.op = "Multiply"
    /\ res' = Result("Multiply.Divide", 0, PosZero, NilErr, Divide(res.val, opB),
                     Vector3Zero)
    /\ UNCHANGED <<opA, opB, vecU, vecV, steps>>

NextValue ==
    \/ CallAdd
    \/ CallSubtract
    \/ CallMultiply
    \/ CallDivide
    \/ CallScale
    \/ CallPower
    \/ CallSqrt
    \/ CallAbs
    \/ CallNegate
    \/ CallSqrtOfPower
    \/ CallDivideOfProduct

Spec == InitValue /\ [][NextValue]_vars

(***************************************************************************)
(* Vector3 operations applied to the operands vecU, vecV.  The operands    *)
(* are struct literals: vectors whose components share one dimension, and  *)
(* vectors whose components do not (the fields X, Y, Z are exported).      *)
(***************************************************************************)
\* the magnitudes of the components: the zero vector, the three unit
\* directions, three vectors in general position, and one whose magnitude
\* is a square root that rounds down
VecMags ==
    {<<0, 0, 0>>, <<1, 0, 0>>, <<0, 1, 0>>, <<0, 0, 1>>,
     <<1, MaxMag, -1>>, <<-1, 0, MaxMag>>, <<MaxMag, MaxMag, 1>>,
     <<MaxMag, MaxMag, 0>>}

\* dimensionless, length, force, and an exponent whose doubling leaves int8
VecDims ==
    {DimensionZero, Dim(Meter(PosZero)), Dim(Newton(PosZero)), AxisDim(1, 100)}

\* length, mass, time
MixDims == {AxisDim(1, 1), AxisDim(2, 1), AxisDim(3, 1)}

Homogeneous(w) == Dim(w.X) = Dim(w.Y) /\ Dim(w.X) = Dim(w.Z)

\* components that are not finite numbers
VecSpecials == {<<PosInf, PosZero, FInt(1)>>, <<FInt(1), NaN, PosZero>>}

Vectors ==
    {Vector3(NewValue(FInt(m[1]), d), NewValue(FInt(m[2]), d), NewValue(FInt(m[3]), d)) :
        m \in VecMags, d \in VecDims}
    \cup
    {Vector3(NewValue(FInt(1), dx), NewValue(FInt(MaxMag), dy), NewValue(FInt(-1), dz)) :
        dx \in MixDims, dy \in MixDims, dz \in MixDims}
    \cup
    {Vector3(NewValue(m[1], d), NewValue(m[2], d), NewValue(m[3], d)) :
        m \in VecSpecials, d \in {DimensionZero, Dim(Meter(PosZero))}}
    \cup
    \* length, mass and a pure number: x*x + y*y has no dimension to take,
    \* z*z is a pure number
    {Vector3(NewValue(FInt(1), AxisDim(1, 1)), NewValue(FInt(MaxMag), AxisDim(2, 1)),
             NewValue(FInt(-1), DimensionZero))}

\* tolerances handed to IsParallel and IsPerpendicular
Tolerances == {FInt(-1), PosZero, FInt(1)}

InitVector ==
    /\ opA = ValueZero
    /\ opB = ValueZero
    /\ vecU \in Vectors
    /\ vecV \in Vectors
    /\ res = NoCall
    /\ steps = 0

\* New on the three components of vecU
CallNew ==
    /\ Idle
    /\ res' = VectorCall("New", New(vecU.X, vecU.Y, vecU.Z))
    /\ UNCHANGED <<opA, opB, vecU, vecV, steps>>

CallVector3Add ==
    /\ Idle
    /\ res' = VectorCall("Vector3.Add", Vector3Add(vecU, vecV))
    /\ UNCHANGED <<opA, opB, vecU, vecV, steps>>

CallVector3Subtract ==
    /\ Idle
    /\ res' = VectorCall("Vector3.Subtract", Vector3Subtract(vecU, vecV))
    /\ UNCHANGED <<opA, opB, vecU, vecV, steps>>

CallDot ==
    /\ Idle
    /\ res' = Result("Dot", 0, PosZero, NilErr, Dot(vecU, vecV), Vector3Zero)
    /\ UNCHANGED <<opA, opB, vecU, vecV, steps>>

CallCross ==
    /\ Idle
    /\ res' = Result("Cross", 0, PosZero, NilErr, ValueZero, Cross(vecU, vecV))
    /\ UNCHANGED <<opA, opB, vecU, vecV, steps>>

CallMagnitudeSquared ==
    /\ Idle
    /\ res' = Result("MagnitudeSquared", 0, PosZero, NilErr,
                     MagnitudeSquared(vecU), Vector3Zero)
    /\ UNCHANGED <<opA, opB, vecU, vecV, steps>>

CallMagnitude ==
    /\ Idle
    /\ res' = ValueCall("Magnitude", Magnitude(vecU))
    /\ UNCHANGED <<opA, opB, vecU, vecV, steps>>

CallNormalize ==
    /\ Idle
    /\ res' = VectorCall("Normalize", Normalize(vecU))
    /\ UNCHANGED <<opA, opB, vecU, vecV, steps>>

CallProjectOnto ==
    /\ Idle
    /\ res' = VectorCall("ProjectOnto", ProjectOnto(vecU, vecV))
    /\ UNCHANGED <<opA, opB, vecU, vecV, steps>>

CallAngleBetween ==
    /\ Idle
    /\ res' = FloatCall("AngleBetween", AngleBetween(vecU, vecV))
    /\ UNCHANGED <<opA, opB, vecU, vecV, steps>>

CallIsParallel ==
    /\ Idle
    /\ \E tolerance \in Tolerances :
          res' = BoolCall("IsParallel", tolerance, IsParallel(vecU, vecV, tolerance))
    /\ UNCHANGED <<opA, opB, vecU, vecV, steps>>

CallIsPerpendicular ==
    /\ Idle
    /\ \E tolerance \in Tolerances :
          res' = BoolCall("IsPerpendicular", tolerance,
                          IsPerpendicular(vecU, vecV, tolerance))
    /\ UNCHANGED <<opA, opB, vecU, vecV, steps>>

CallVector3Scale ==
    /\ Idle
    /\ \E scalar \in Scalars :
          res' = Result("Vector3.Scale", 0, scalar, NilErr, ValueZero,
                        Vector3Scale(vecU, scalar))
    /\ UNCHANGED <<opA, opB, vecU, vecV, steps>>

\* a second call on the result of the first: u.Scale(k).Dot(v)
CallDotOfScaled ==
    /\ res.op = "Vector3.Scale"
    /\ res' = Result("Scale.Dot", 0, res.k, NilErr, Dot(res.vec, vecV), Vector3Zero)
    /\ UNCHANGED <<opA, opB, vecU, vecV, steps>>

NextVector ==
    \/ CallVector3Scale
    \/ CallDotOfScaled
    \/ CallNew
    \/ CallVector3Add
    \/ CallVector3Subtract
    \/ CallDot
    \/ CallCross
    \/ CallMagnitudeSquared
    \/ CallMagnitude
    \/ CallNormalize
    \/ CallProjectOnto
    \/ CallAngleBetween
    \/ CallIsParallel
    \/ CallIsPerpendicular

SpecVector == InitVector /\ [][NextVector]_vars

(***************************************************************************)
(* Dimension.String applied to the dimension of opA.                       *)
(***************************************************************************)
\* dimensions rendered: those of the Value operations, every exponent set,
\* and exponents of two digits next to exponents of one
StringDims ==
    NamedDims \cup AxisDims
        \cup {Dimension(1, 1, 1, 1, 1, 1, 1), Dimension(-1, -2, 3, -4, 5, -6, 7),
              Dimension(1, 2, 0, 0, 0, 0, 0), Dimension(12, 0, 0, 0, 0, 0, 0),
              Dimension(0, 12, 0, 0, 0, 0, 0), Dimension(0, 0, 0, 0, 1, 0, -10)}

InitString ==
    /\ opA \in {NewValue(FInt(1), d) : d \in StringDims}
    /\ opB \in {NewValue(FInt(1), d) : d \in StringDims}
    /\ vecU = Vector3Zero
    /\ vecV = Vector3Zero
    /\ res = NoCall
    /\ steps = 0

CallDimensionString ==
    /\ Idle
    /\ res' = StringCall("Dimension.String", DimensionString(opA.dim))
    /\ UNCHANGED <<opA, opB, vecU, vecV, steps>>

NextString == CallDimensionString

SpecString == InitString /\ [][NextString]_vars

(***************************************************************************)
(* Value.Equal, and almostEqual as the package's tests call it, with       *)
(* tolerances 1e-k other than the 1e-14 of Equal.                          *)
(***************************************************************************)
\* magnitudes compared: zeros, two small ones, two close large ones
EqualMags ==
    {PosZero, NegZero, F(1, 1, 100), F(1, 1, 50), FInt(1), FInt(-1),
     FInt(100), FInt(101), NaN, PosInf}

EqualValues ==
    {NewValue(m, d) : m \in EqualMags, d \in {DimensionZero, Dim(Meter(PosZero))}}

\* the tolerances 1e-k handed to almostEqual
ToleranceDigitsSet == 0..MaxTolDigits \cup {ToleranceDigits}

InitEqual ==
    /\ opA \in EqualValues
    /\ opB \in EqualValues
    /\ vecU = Vector3Zero
    /\ vecV = Vector3Zero
    /\ res = NoCall
    /\ steps = 0

CallEqual ==
    /\ Idle
    /\ res' = [BoolCall("Equal", PosZero, Equal(opA, opB)) EXCEPT !.n = ToleranceDigits]
    /\ UNCHANGED <<opA, opB, vecU, vecV, steps>>

CallAlmostEqual ==
    /\ Idle
    /\ \E k \in ToleranceDigitsSet :
          res' = [BoolCall("almostEqual", PosZero, almostEqual(opA.value, opB.value, k))
                     EXCEPT !.n = k]
    /\ UNCHANGED <<opA, opB, vecU, vecV, steps>>

NextEqual ==
    \/ CallEqual
    \/ CallAlmostEqual

SpecEqual == InitEqual /\ [][NextEqual]_vars

(***************************************************************************)
(* A program that builds vectors with the constructors and feeds the       *)
(* results of vector operations back into its operands: vecU is replaced   *)
(* by the result of each operation that returns a vector without error.    *)
(***************************************************************************)
ChainMags == {PosZero, FInt(1)}

ChainDims == {Dim(Meter(PosZero)), AxisDim(1, 100)}

ChainValues == {NewValue(m, d) : m \in ChainMags, d \in ChainDims}

ChainScalars == {PosZero, FInt(2)}

InitChain ==
    /\ opA = ValueZero
    /\ opB = ValueZero
    /\ vecU = Zero(DimensionZero)
    /\ vecV = Zero(DimensionZero)
    /\ res = NoCall
    /\ steps = 0

\* the program first builds vecU, then vecV, then runs the chain
Building == steps < 2

\* the magnitudes of w are finite, of numerator and denominator <= MagCap
Small(w) == \A c \in {w.X, w.Y, w.Z} : Val(c).n <= MagCap /\ Val(c).d \in 1..MagCap

Chaining == steps >= 2 /\ steps < 2 + MaxChain /\ Small(vecU) /\ Small(vecV)

\* the caller's assignment of a constructor's result: the first vector
\* built becomes vecU, the second vecV
Assign(op, r) ==
    /\ steps' = steps + 1
    /\ res' = Result(op, 0, PosZero, r.err, ValueZero, r.vec)
    /\ vecU' = IF steps = 0 /\ r.err = NilErr THEN r.vec ELSE vecU
    /\ vecV' = IF steps = 1 /\ r.err = NilErr THEN r.vec ELSE vecV
    /\ UNCHANGED <<opA, opB>>

\* one more operation of the chain: r is what it returned
Feed(op, k, r) ==
    /\ steps' = steps + 1
    /\ res' = Result(op, 0, k, r.err, ValueZero, r.vec)
    /\ vecU' = IF r.err = NilErr THEN r.vec ELSE vecU
    /\ UNCHANGED <<opA, opB, vecV>>

\* the result of an operation that has no error outcome
Total(w) == [vec |-> w, err |-> NilErr]

BuildNew ==
    /\ Building
    /\ \E x \in ChainValues, y \in ChainValues, z \in ChainValues :
          Assign("New", New(x, y, z))

BuildZero ==
    /\ Building
    /\ \E d \in ChainDims : Assign("Zero", Total(Zero(d)))

BuildUnitX ==
    /\ Building
    /\ \E d \in ChainDims : Assign("UnitX", Total(UnitX(d)))

BuildUnitY ==
    /\ Building
    /\ \E d \in ChainDims : Assign("UnitY", Total(UnitY(d)))

BuildUnitZ ==
    /\ Building
    /\ \E d \in ChainDims : Assign("UnitZ", Total(UnitZ(d)))

BuildNewPosition ==
    /\ Building
    /\ \E x \in ChainMags, y \in ChainMags, z \in ChainMags :
          Assign("NewPosition", Total(NewPosition(Meter(x), Meter(y), Meter(z))))

BuildNewVelocity ==
    /\ Building
    /\ \E x \in ChainMags, y \in ChainMags, z \in ChainMags :
          Assign("NewVelocity",
                 Total(NewVelocity(MeterPerSecond(x), MeterPerSecond(y),
                                   MeterPerSecond(z))))

BuildNewAcceleration ==
    /\ Building
    /\ \E x \in ChainMags, y \in ChainMags, z \in ChainMags :
          Assign("NewAcceleration",
                 Total(NewAcceleration(MeterPerSecond2(x), MeterPerSecond2(y),
                                       MeterPerSecond2(z))))

BuildNewForce ==
    /\ Building
    /\ \E x \in ChainMags, y \in ChainMags, z \in ChainMags :
          Assign("NewForce", Total(NewForce(Newton(x), Newton(y), Newton(z))))

ChainAdd ==
    /\ Chaining
    /\ Feed("Vector3.Add", PosZero, Vector3Add(vecU, vecV))

ChainSubtract ==
    /\ Chaining
    /\ Feed("Vector3.Subtract", PosZero, Vector3Subtract(vecU, vecV))

ChainScale ==
    /\ Chaining
    /\ \E scalar \in ChainScalars :
          Feed("Vector3.Scale", scalar, Total(Vector3Scale(vecU, scalar)))

ChainNegate ==
    /\ Chaining
    /\ Feed("Vector3.Negate", PosZero, Total(Vector3Negate(vecU)))

ChainCross ==
    /\ Chaining
    /\ Feed("Cross", PosZero, Total(Cross(vecU, vecV)))

ChainNormalize ==
    /\ Chaining
    /\ Feed("Normalize", PosZero, Normalize(vecU))

ChainProjectOnto ==
    /\ Chaining
    /\ Feed("ProjectOnto", PosZero, ProjectOnto(vecU, vecV))

NextChain ==
    \/ BuildNew
    \/ BuildZero
    \/ BuildUnitX
    \/ BuildUnitY
    \/ BuildUnitZ
    \/ BuildNewPosition
    \/ BuildNewVelocity
    \/ BuildNewAcceleration
    \/ BuildNewForce
    \/ ChainAdd
    \/ ChainSubtract
    \/ ChainScale
    \/ ChainNegate
    \/ ChainCross
    \/ ChainNormalize
    \/ ChainProjectOnto

SpecChain == InitChain /\ [][NextChain]_vars

(***************************************************************************)
(* Properties.  Exponents are read as mathematical integers: sums,         *)
(* differences and products below are those of Integers, not of int8.      *)
(***************************************************************************)
\* the seven exponents of a Dimension, in the order L, M, T, I, Th, N, J
Exps(d) == <<d.L, d.M, d.T, d.I, d.Th, d.N, d.J>>

DimsDiffer(d, e) == \E i \in 1..7 : Exps(d)[i] # Exps(e)[i]

AnyOddExp(d) == \E i \in 1..7 : Exps(d)[i] % 2 = 1

Failed == res.err # NilErr

\* C1: Value.Add and Value.Subtract return an error exactly when the two
\* dimensions differ in at least one of the seven exponents; otherwise they
\* return no error and the Value (a.magnitude + b.magnitude, a.dim),
\* respectively (a.magnitude - b.magnitude, a.dim).
C1_AddSubtractContract ==
    /\ res.op \in {"Add", "Subtract"} => (Failed <=> DimsDiffer(opA.dim, opB.dim))
    /\ (res.op = "Add" /\ ~DimsDiffer(opA.dim, opB.dim)) =>
          /\ res.val.value = FAdd(opA.value, opB.value)
          /\ res.val.dim = opA.dim
    /\ (res.op = "Subtract" /\ ~DimsDiffer(opA.dim, opB.dim)) =>
          /\ res.val.value = FSub(opA.value, opB.value)
          /\ res.val.dim = opA.dim

\* an Add refused for operands that differ in the last exponent only
C1_Witness ==
    /\ res.op = "Add"
    /\ Failed
    /\ opA.dim.J # opB.dim.J
    /\ \A i \in 1..6 : Exps(opA.dim)[i] = Exps(opB.dim)[i]

\* C2: Multiply and Divide have no error outcome, every exponent of
\* Multiply(a, b).dim is the sum and of Divide(a, b).dim the difference of
\* the operands' exponents, and Divide of equal dimensions is dimensionless.
C2_MultiplyDivideExponents ==
    /\ res.op \in {"Multiply", "Divide"} => ~Failed
    /\ res.op = "Multiply" =>
          \A i \in 1..7 : Exps(res.val.dim)[i] = Exps(opA.dim)[i] + Exps(opB.dim)[i]
    /\ res.op = "Divide" =>
          /\ \A i \in 1..7 :
                Exps(res.val.dim)[i] = Exps(opA.dim)[i] - Exps(opB.dim)[i]
          /\ opA.dim = opB.dim => res.val.dim = DimensionZero

\* C3: Sqrt returns an error exactly when some exponent is odd (of either
\* sign), whatever the magnitude; otherwise every exponent of the result is
\* exactly half the operand's.
C3_SqrtContract ==
    res.op = "Sqrt" =>
        /\ Failed <=> AnyOddExp(opA.dim)
        /\ ~Failed => \A i \in 1..7 : 2 * Exps(res.val.dim)[i] = Exps(opA.dim)[i]

\* a Sqrt refused because of a negative odd exponent, and one that succeeds
\* on a negative magnitude
C3_Witness ==
    /\ res.op = "Sqrt"
    /\ \/ Failed /\ opA.dim.J = -1
       \/ ~Failed /\ opA.value.s = -1 /\ opA.value.n > 0 /\ opA.dim.L = 2

\* C4: for every integer n, every exponent of Power(v, n).dim is the
\* exponent of v.dim multiplied by n; Power(v, 0) is dimensionless and
\* Power(v, -1) has the inverse dimension.
C4_PowerExponents ==
    res.op = "Power" =>
        \A i \in 1..7 : Exps(res.val.dim)[i] = Exps(opA.dim)[i] * res.n

\* C5: New returns an error exactly when the dimensions of x, y, z are not
\* all equal; otherwise the Vector3 whose X, Y, Z are exactly x, y, z.
C5_NewContract ==
    res.op = "New" =>
        /\ Failed <=> \/ DimsDiffer(Dim(vecU.X), Dim(vecU.Y))
                      \/ DimsDiffer(Dim(vecU.Y), Dim(vecU.Z))
                      \/ DimsDiffer(Dim(vecU.X), Dim(vecU.Z))
        /\ ~Failed => res.vec.X = vecU.X /\ res.vec.Y = vecU.Y /\ res.vec.Z = vecU.Z

\* a New refused although x and y agree: only z differs
C5_Witness ==
    /\ res.op = "New"
    /\ Failed
    /\ Dim(vecU.X) = Dim(vecU.Y)
    /\ Dim(vecU.X) # Dim(vecU.Z)

\* C6: every Vector3 returned without error by the constructors, and by any
\* sequence of Add, Subtract, Scale, Negate, Cross, Normalize and ProjectOnto
\* applied to such vectors, has X, Y and Z of one identical Dimension, which
\* is the one Vector3.Dim reads from X.
C6_ComponentsShareDimension ==
    \A w \in {vecU, vecV, res.vec} :
        /\ Vector3Dim(w) = Dim(w.Y)
        /\ Vector3Dim(w) = Dim(w.Z)

\* the second Cross of a chain, on an exponent that has left int8 twice
C6_Witness ==
    /\ steps = 4
    /\ res.op = "Cross"
    /\ vecU = res.vec
    /\ Vector3Dim(vecU).L = 300 - 256

\* the outcome C7 states for a componentwise operation, given the results
\* x, y, z of the Value operation on the X, Y and Z pairs
FirstFailure(x, y, z) ==
    IF DimsDiffer(Dim(vecU.X), Dim(vecV.X)) THEN res.err = x.err /\ res.vec = Vector3Zero
    ELSE IF DimsDiffer(Dim(vecU.Y), Dim(vecV.Y)) THEN res.err = y.err /\ res.vec = Vector3Zero
    ELSE IF DimsDiffer(Dim(vecU.Z), Dim(vecV.Z)) THEN res.err = z.err /\ res.vec = Vector3Zero
    ELSE /\ ~Failed
         /\ res.vec.X = x.val
         /\ res.vec.Y = y.val
         /\ res.vec.Z = z.val

\* C7: Vector3.Add and Vector3.Subtract return the error of the first pair
\* (in the order X, Y, Z) whose dimensions differ, together with the empty
\* Vector3; with no such pair, the three componentwise results and no error.
C7_VectorAddSubtract ==
    /\ res.op = "Vector3.Add" =>
          /\ FirstFailure(Add(vecU.X, vecV.X), Add(vecU.Y, vecV.Y), Add(vecU.Z, vecV.Z))
          /\ Failed => res.err.kind = "add"
    /\ res.op = "Vector3.Subtract" =>
          /\ FirstFailure(Subtract(vecU.X, vecV.X), Subtract(vecU.Y, vecV.Y),
                          Subtract(vecU.Z, vecV.Z))
          /\ Failed => res.err.kind = "subtract"

\* an Add whose X pair agrees and whose Y and Z pairs fail differently
C7_Witness ==
    /\ res.op = "Vector3.Add"
    /\ Failed
    /\ Dim(vecU.X) = Dim(vecV.X)
    /\ Dim(vecU.Y) # Dim(vecV.Y)
    /\ Dim(vecU.Z) # Dim(vecV.Z)
    /\ Add(vecU.Y, vecV.Y).err # Add(vecU.Z, vecV.Z).err

\* C8: for u, v with homogeneous components neither Add inside Dot fails,
\* and Dot is ux*vx + uy*vy + uz*vz with every exponent the sum of the
\* exponents of u.dim and v.dim.
C8_DotContract ==
    (res.op = "Dot" /\ Homogeneous(vecU) /\ Homogeneous(vecV)) =>
        /\ DotAdd1(vecU, vecV).err = NilErr
        /\ DotAdd2(vecU, vecV).err = NilErr
        /\ res.val.value =
              FAdd(FAdd(FMul(vecU.X.value, vecV.X.value),
                        FMul(vecU.Y.value, vecV.Y.value)),
                   FMul(vecU.Z.value, vecV.Z.value))
        /\ \A i \in 1..7 :
              Exps(res.val.dim)[i]
                  = Exps(Vector3Dim(vecU))[i] + Exps(Vector3Dim(vecV))[i]

\* C9: for u, v with homogeneous components none of the Subtract calls
\* inside Cross fails, and Cross is (uy*vz - uz*vy, uz*vx - ux*vz,
\* ux*vy - uy*vx) with every exponent of every component the sum of the
\* exponents of u.dim and v.dim.
C9_CrossContract ==
    (res.op = "Cross" /\ Homogeneous(vecU) /\ Homogeneous(vecV)) =>
        /\ CrossX(vecU, vecV).err = NilErr
        /\ CrossY(vecU, vecV).err = NilErr
        /\ CrossZ(vecU, vecV).err = NilErr
        /\ res.vec.X.value = FSub(FMul(vecU.Y.value, vecV.Z.value),
                                  FMul(vecU.Z.value, vecV.Y.value))
        /\ res.vec.Y.value = FSub(FMul(vecU.Z.value, vecV.X.value),
                                  FMul(vecU.X.value, vecV.Z.value))
        /\ res.vec.Z.value = FSub(FMul(vecU.X.value, vecV.Y.value),
                                  FMul(vecU.Y.value, vecV.X.value))
        /\ \A i \in 1..7 : \A c \in {res.vec.X, res.vec.Y, res.vec.Z} :
              Exps(Dim(c))[i] = Exps(Vector3Dim(vecU))[i] + Exps(Vector3Dim(vecV))[i]

\* C10: for v with homogeneous components Magnitude never returns an error:
\* every exponent of MagnitudeSquared(v).dim is even.
C10_MagnitudeDefined ==
    (res.op = "Magnitude" /\ Homogeneous(vecU)) =>
        /\ ~Failed
        /\ ~AnyOddExp(Dim(MagnitudeSquared(vecU)))

\* a Magnitude taken where doubling the exponent leaves the range of int8
C10_Witness ==
    /\ res.op = "Magnitude"
    /\ Homogeneous(vecU)
    /\ ~Failed
    /\ 2 * Vector3Dim(vecU).L > Int8Max

\* C11: for v with homogeneous components every exponent of
\* MagnitudeSquared(v).dim is twice that of v.Dim(), and Magnitude(v) has
\* exactly the dimension v.Dim().
C11_MagnitudeDimensions ==
    /\ (res.op = "MagnitudeSquared" /\ Homogeneous(vecU)) =>
          \A i \in 1..7 : Exps(res.val.dim)[i] = 2 * Exps(Vector3Dim(vecU))[i]
    /\ (res.op = "Magnitude" /\ Homogeneous(vecU)) =>
          /\ ~Failed
          /\ res.val.dim = Vector3Dim(vecU)

\* C12: Normalize(v) returns an error and the empty Vector3 when the
\* magnitude of v is exactly zero; for every other v with homogeneous
\* components it returns each component divided by the magnitude Value, and
\* the three components of the result are dimensionless.
C12_NormalizeContract ==
    res.op = "Normalize" =>
        LET mag == Magnitude(vecU)
        IN  /\ (mag.err = NilErr /\ FEq(Val(mag.val), FInt(0))) =>
                  Failed /\ res.vec = Vector3Zero
            /\ (Homogeneous(vecU) /\ ~FEq(Val(mag.val), FInt(0))) =>
                  /\ ~Failed
                  /\ res.vec.X = Divide(vecU.X, mag.val)
                  /\ res.vec.Y = Divide(vecU.Y, mag.val)
                  /\ res.vec.Z = Divide(vecU.Z, mag.val)
                  /\ \A c \in {res.vec.X, res.vec.Y, res.vec.Z} : Dim(c) = DimensionZero

\* C13: ProjectOnto(v, onto) returns an error exactly when the magnitude of
\* MagnitudeSquared(onto) is zero, and that error is never a dimension
\* error; otherwise each component of the result is the component of onto
\* multiplied by Dot(v, onto) / MagnitudeSquared(onto), and for v and onto
\* with homogeneous components, of equal or different dimensions, every
\* component of the result has the dimension of v.
C13_ProjectOntoContract ==
    res.op = "ProjectOnto" =>
        LET otherMagSquared == MagnitudeSquared(vecV)
            scalar == Divide(Dot(vecU, vecV), otherMagSquared)
        IN  /\ Failed <=> FEq(Val(otherMagSquared), FInt(0))
            /\ Failed => res.err = Errorf("project", <<>>) /\ res.vec = Vector3Zero
            /\ ~Failed =>
                  /\ res.vec.X = Multiply(vecV.X, scalar)
                  /\ res.vec.Y = Multiply(vecV.Y, scalar)
                  /\ res.vec.Z = Multiply(vecV.Z, scalar)
            /\ (~Failed /\ Homogeneous(vecU) /\ Homogeneous(vecV)) =>
                  \A c \in {res.vec.X, res.vec.Y, res.vec.Z} : Dim(c) = Vector3Dim(vecU)

\* a length projected onto a vector whose doubled exponent leaves int8
C13_Witness ==
    /\ res.op = "ProjectOnto"
    /\ ~Failed
    /\ Homogeneous(vecU)
    /\ Homogeneous(vecV)
    /\ Vector3Dim(vecU) = Dim(Meter(PosZero))
    /\ Vector3Dim(vecV).L = 100
    /\ Dim(res.vec.Z) = Dim(Meter(PosZero))

\* the angle f, in units of pi/2, lies in [0, pi]
InZeroPi(f) == ~IsNaN(f) /\ ~FLt(f, FInt(0)) /\ ~FLt(FInt(2), f)

\* C14: AngleBetween(u, v) returns the error of Magnitude(u), else that of
\* Magnitude(v), else an error when the product of the two magnitudes is
\* exactly zero; otherwise the quotient Dot(u, v) / (|u|*|v|) is
\* dimensionless and the returned angle lies in [0, pi].
C14_AngleBetweenContract ==
    res.op = "AngleBetween" =>
        LET magV == Magnitude(vecU)
            magOther == Magnitude(vecV)
            magProduct == Multiply(magV.val, magOther.val)
            quotient == Divide(Dot(vecU, vecV), magProduct)
        IN  IF magV.err # NilErr THEN res.err = magV.err
            ELSE IF magOther.err # NilErr THEN res.err = magOther.err
            ELSE IF FEq(Val(magProduct), FInt(0)) THEN Failed
            ELSE /\ ~Failed
                 /\ Dim(quotient) = DimensionZero
                 /\ InZeroPi(res.f)

\* one of the two Add calls inside Dot(v, other) returned an error
DotFails(v, other) ==
    DotAdd1(v, other).err # NilErr \/ DotAdd2(v, other).err # NilErr

\* one of the three Subtract calls inside Cross(v, other) returned an error
CrossFails(v, other) ==
    \/ CrossX(v, other).err # NilErr
    \/ CrossY(v, other).err # NilErr
    \/ CrossZ(v, other).err # NilErr

\* a Value operation called by the Vector3 operation op on vecU, vecV failed
ValueOpFailed(op) ==
    CASE op \in {"Dot", "IsPerpendicular"} -> DotFails(vecU, vecV)
      [] op = "Cross" -> CrossFails(vecU, vecV)
      [] op = "MagnitudeSquared" -> DotFails(vecU, vecU)
      [] op = "IsParallel" ->
            CrossFails(vecU, vecV)
                \/ DotFails(Cross(vecU, vecV), Cross(vecU, vecV))
      [] op \in {"Magnitude", "Normalize"} ->
            DotFails(vecU, vecU) \/ Magnitude(vecU).err # NilErr
      [] op = "ProjectOnto" -> DotFails(vecU, vecV) \/ DotFails(vecV, vecV)
      [] op = "AngleBetween" ->
            \/ DotFails(vecU, vecV)
            \/ DotFails(vecU, vecU) \/ Magnitude(vecU).err # NilErr
            \/ DotFails(vecV, vecV) \/ Magnitude(vecV).err # NilErr
      [] op = "Vector3.Add" ->
            \E c \in {Add(vecU.X, vecV.X), Add(vecU.Y, vecV.Y), Add(vecU.Z, vecV.Z)} :
                c.err # NilErr
      [] op = "Vector3.Subtract" ->
            \E c \in {Subtract(vecU.X, vecV.X), Subtract(vecU.Y, vecV.Y),
                       Subtract(vecU.Z, vecV.Z)} : c.err # NilErr
      [] OTHER -> FALSE

\* C15: a Vector3 operation (Dot, Cross, MagnitudeSquared, IsParallel and
\* IsPerpendicular included) in which a Value operation has failed returns
\* an error to its caller, never a normal result.
C15_FailuresSurface == ValueOpFailed(res.op) => Failed

\* x >= 0 on float64
NonNegative(x) == ~IsNaN(x) /\ ~FLt(x, FInt(0))

\* C16: for every Value v with even exponents and a non-negative magnitude
\* Sqrt(Power(v, 2)) succeeds and is Equal to v.
C16_SqrtOfSquare ==
    (res.op = "Power.Sqrt" /\ res.n = 2 /\ ~AnyOddExp(opA.dim)
        /\ NonNegative(opA.value)) =>
        /\ ~Failed
        /\ Equal(res.val, opA)

\* C17 as stated: for every Value a and every b of nonzero magnitude,
\* Divide(Multiply(a, b), b) is Equal to a.
C17_DivideUndoesMultiply ==
    (res.op = "Multiply.Divide" /\ ~FEq(opB.value, FInt(0))) => Equal(res.val, opA)

\* C17 as amended: Divide(Multiply(a, b), b) has exactly the dimension
\* a.dim for every a and b, and is Equal to a when a is not NaN and b is
\* finite and nonzero.
C17_DivideUndoesMultiplyFinite ==
    res.op = "Multiply.Divide" =>
        /\ res.val.dim = opA.dim
        /\ (~IsNaN(opA.value) /\ IsFinite(opB.value) /\ ~FEq(opB.value, FInt(0))) =>
              Equal(res.val, opA)

\* a round trip whose intermediate exponent has left int8
C17_Witness ==
    /\ res.op = "Multiply.Divide"
    /\ opA.dim.L = 100
    /\ opB.dim.L = 100
    /\ IsFinite(opA.value)
    /\ IsFinite(opB.value)
    /\ ~FEq(opB.value, FInt(0))
    /\ Equal(res.val, opA)

\* C18 as stated: Add(a, b) fails exactly when Add(b, a) fails, and for a, b
\* of one dimension both succeed with Equal results.
C18_AddCommutes ==
    res.op = "Add" =>
        /\ Failed <=> Add(opB, opA).err # NilErr
        /\ opA.dim = opB.dim =>
              /\ ~Failed
              /\ Equal(res.val, Add(opB, opA).val)

\* C18 as amended: Add(a, b) fails exactly when Add(b, a) fails, and for a, b
\* of one dimension both succeed with the same dimension and with magnitudes
\* that are both NaN or else Equal.
C18_AddCommutesUpToNaN ==
    res.op = "Add" =>
        /\ Failed <=> Add(opB, opA).err # NilErr
        /\ opA.dim = opB.dim =>
              /\ ~Failed
              /\ res.val.dim = Add(opB, opA).val.dim
              /\ \/ IsNaN(res.val.value) /\ IsNaN(Add(opB, opA).val.value)
                 \/ Equal(res.val, Add(opB, opA).val)

\* a sum of two different finite magnitudes of one dimension
C18_Witness ==
    /\ res.op = "Add"
    /\ ~Failed
    /\ opA.value = FInt(-1)
    /\ opB.value = FInt(MaxMag)
    /\ opA.dim = Dim(Meter(PosZero))
    /\ Equal(res.val, Add(opB, opA).val)

\* the magnitudes of the components of w
Magnitudes(w) == <<Val(w.X), Val(w.Y), Val(w.Z)>>

\* the dimensions of the components of w
Dimensions(w) == <<Dim(w.X), Dim(w.Y), Dim(w.Z)>>

\* C19 as stated: for u, v with homogeneous components Cross(u, v) equals
\* Negate(Cross(v, u)) component by component, in magnitude (== on float64)
\* and in dimension.
C19_CrossAnticommutes ==
    (res.op = "Cross" /\ Homogeneous(vecU) /\ Homogeneous(vecV)) =>
        LET w == Vector3Negate(Cross(vecV, vecU))
        IN  /\ Dimensions(res.vec) = Dimensions(w)
            /\ \A i \in 1..3 : FEq(Magnitudes(res.vec)[i], Magnitudes(w)[i])

\* C19 as amended: for u, v with homogeneous components Cross(u, v) and
\* Negate(Cross(v, u)) have the same dimension in every component, and the
\* magnitudes of each component are both NaN or else equal (== on float64,
\* under which +0 equals -0).
C19_CrossAnticommutesUpToNaN ==
    (res.op = "Cross" /\ Homogeneous(vecU) /\ Homogeneous(vecV)) =>
        LET w == Vector3Negate(Cross(vecV, vecU))
        IN  /\ Dimensions(res.vec) = Dimensions(w)
            /\ \A i \in 1..3 :
                  \/ IsNaN(Magnitudes(res.vec)[i]) /\ IsNaN(Magnitudes(w)[i])
                  \/ FEq(Magnitudes(res.vec)[i], Magnitudes(w)[i])

\* a Cross of two vectors in general position, of different dimensions,
\* with no zero component in the result
C19_Witness ==
    /\ res.op = "Cross"
    /\ Homogeneous(vecU)
    /\ Homogeneous(vecV)
    /\ Vector3Dim(vecU) # Vector3Dim(vecV)
    /\ \A i \in 1..3 : IsFinite(Magnitudes(res.vec)[i]) /\ Magnitudes(res.vec)[i].n > 0
    /\ Magnitudes(res.vec) = Magnitudes(Vector3Negate(Cross(vecV, vecU)))

\* the vector of the magnitudes x, y, z in the dimension d
Basis(x, y, z, d) ==
    Vector3(NewValue(FInt(x), d), NewValue(FInt(y), d), NewValue(FInt(z), d))

\* C20: for i = (1,0,0), j = (0,1,0), k = (0,0,1) of one common Dimension,
\* Cross(i, j) has the magnitudes (0,0,1) of k and Cross(j, k) the
\* magnitudes (1,0,0) of i.
C20_BasisCross ==
    \A d \in VecDims :
        /\ (res.op = "Cross" /\ vecU = Basis(1, 0, 0, d) /\ vecV = Basis(0, 1, 0, d)) =>
              \A n \in 1..3 :
                  FEq(Magnitudes(res.vec)[n], Magnitudes(Basis(0, 0, 1, d))[n])
        /\ (res.op = "Cross" /\ vecU = Basis(0, 1, 0, d) /\ vecV = Basis(0, 0, 1, d)) =>
              \A n \in 1..3 :
                  FEq(Magnitudes(res.vec)[n], Magnitudes(Basis(1, 0, 0, d))[n])

\* Cross(i, j) taken on basis vectors of force
C20_Witness ==
    /\ res.op = "Cross"
    /\ vecU = Basis(1, 0, 0, Dim(Newton(PosZero)))
    /\ vecV = Basis(0, 1, 0, Dim(Newton(PosZero)))
    /\ Val(res.vec.Z) = FInt(1)

\* the magnitudes of w are exactly x, y, z and every component has dimension d
IsUnit(w, x, y, z, d) ==
    /\ Magnitudes(w) = <<FInt(x), FInt(y), FInt(z)>>
    /\ Dimensions(w) = <<d, d, d>>

\* C21: UnitX(dim), UnitY(dim) and UnitZ(dim) have the magnitudes (1,0,0),
\* (0,1,0) and (0,0,1), every component of dimension dim, so the three are
\* pairwise distinct and pairwise perpendicular (Dot = 0).
C21_UnitVectors ==
    \A d \in ChainDims :
        /\ (res.op = "UnitX" /\ res.vec = UnitX(d)) => IsUnit(res.vec, 1, 0, 0, d)
        /\ (res.op = "UnitY" /\ res.vec = UnitY(d)) => IsUnit(res.vec, 0, 1, 0, d)
        /\ (res.op = "UnitZ" /\ res.vec = UnitZ(d)) =>
              /\ IsUnit(res.vec, 0, 0, 1, d)
              /\ res.vec # UnitX(d)
              /\ res.vec # UnitY(d)
              /\ UnitX(d) # UnitY(d)
              /\ FEq(Val(Dot(res.vec, UnitX(d))), FInt(0))
              /\ FEq(Val(Dot(res.vec, UnitY(d))), FInt(0))
              /\ FEq(Val(Dot(UnitX(d), UnitY(d))), FInt(0))

Finite(w) == \A i \in 1..3 : IsFinite(Magnitudes(w)[i])

AbsoluteClose(a, b, k) == FLtPow10(FAbs(FSub(a, b)), k)

\* |a - b| / (|a| + |b|) < 1e-k
RelativeClose(a, b, k) ==
    FLtPow10(FDiv(FAbs(FSub(a, b)), FAdd(FAbs(a), FAbs(b))), k)

\* one of the two magnitudes is exactly zero
OneIsZero(a, b) == FEq(a, FInt(0)) \/ FEq(b, FInt(0))

C24_MagnitudeOnly ==
    /\ res.op \in {"Scale", "Abs", "Negate"} => (~Failed /\ res.val.dim = opA.dim)
    /\ res.op = "Scale" => res.val.value = FMul(opA.value, res.k)
    /\ res.op = "Abs" =>
          res.val.value = (IF IsNaN(opA.value) THEN NaN
                           ELSE F(1, opA.value.n, opA.value.d))
    /\ res.op = "Negate" =>
          res.val.value = (IF IsNaN(opA.value) THEN NaN
                           ELSE F(-opA.value.s, opA.value.n, opA.value.d))

\* the absolute value of a negative energy
C24_Witness ==
    /\ res.op = "Abs"
    /\ opA.value = FInt(-1)
    /\ opA.dim = Dimension(2, 1, -2, 0, 0, 0, 0)
    /\ res.val = NewValue(FInt(1), opA.dim)

\* the symbols of the seven exponents, in the order of Exps
Symbols == <<"L", "M", "T", "I", "Θ", "N", "J">>

RECURSIVE TokenList(_, _, _)
\* the tokens SYMBOL^exponent of the non-zero exponents e[i..7], separated
\* by single spaces; first: no token has been written yet
TokenList(e, i, first) ==
    IF i > 7 THEN ""
    ELSE IF e[i] = 0 THEN TokenList(e, i + 1, first)
    ELSE (IF first THEN "" ELSE " ") \o Symbols[i] \o "^" \o Itoa(e[i])
             \o TokenList(e, i + 1, FALSE)

\* C25: Dimension.String renders the all-zero Dimension as "[1]" and every
\* other one as the bracketed, single-space-separated list of one token
\* SYMBOL^exponent per non-zero exponent in the order L, M, T, I, Θ, N, J;
\* two Dimensions render to the same string only if they are equal.
C25_DimensionString ==
    res.op = "Dimension.String" =>
        /\ opA.dim = DimensionZero => res.str = "[1]"
        /\ opA.dim # DimensionZero =>
              res.str = "[" \o TokenList(Exps(opA.dim), 1, TRUE) \o "]"
        /\ res.str = DimensionString(opB.dim) => opA.dim = opB.dim

\* a rendering with every symbol, negative exponents among them
C25_Witness ==
    /\ res.op = "Dimension.String"
    /\ opA.dim = Dimension(-1, -2, 3, -4, 5, -6, 7)
    /\ res.str = "[L^-1 M^-2 T^3 I^-4 Θ^5 N^-6 J^7]"
    /\ opB.dim = Dimension(1, 2, 0, 0, 0, 0, 0)

\* tolerance is a number <= 0
NotPositive(tolerance) == FLt(tolerance, FInt(0)) \/ FEq(tolerance, FInt(0))

\* what C26 says of the call recorded in res, where the zero vector is
\* parallel and perpendicular to each vector that satisfies Covered
TolerancePredicates(Covered(_)) ==
    /\ res.op = "IsPerpendicular" =>
          /\ res.ok <=> FLt(FAbs(Val(Dot(vecU, vecV))), res.k)
          /\ (FLt(FInt(0), res.k) /\ IsZero(vecU) /\ Covered(vecV)) => res.ok
          /\ (FLt(FInt(0), res.k) /\ IsZero(vecV) /\ Covered(vecU)) => res.ok
          /\ NotPositive(res.k) => ~res.ok
    /\ res.op = "IsParallel" =>
          /\ res.ok <=>
                FLt(FAbs(Val(MagnitudeSquared(Cross(vecU, vecV)))), res.k)
          /\ (FLt(FInt(0), res.k) /\ IsZero(vecU) /\ Covered(vecV)) => res.ok
          /\ (FLt(FInt(0), res.k) /\ IsZero(vecV) /\ Covered(vecU)) => res.ok
          /\ NotPositive(res.k) => ~res.ok

\* every Vector3
AnyVector(w) == TRUE

\* C26 as stated: IsPerpendicular is true exactly when |Dot| < tolerance and
\* IsParallel exactly when |MagnitudeSquared(Cross)| < tolerance; for a
\* positive tolerance the zero vector is parallel and perpendicular to
\* every vector; for a tolerance <= 0 both are false for every pair.
C26_ZeroVectorAlways == TolerancePredicates(AnyVector)

\* C26 as amended: as above, where for a positive tolerance the zero vector
\* is parallel and perpendicular to every vector with finite components.
C26_ZeroVectorFinite == TolerancePredicates(Finite)

\* the zero vector found parallel to a finite nonzero vector of another
\* dimension
C26_Witness ==
    /\ res.op = "IsParallel"
    /\ res.k = FInt(1)
    /\ IsZero(vecU)
    /\ Finite(vecV)
    /\ ~IsZero(vecV)
    /\ Vector3Dim(vecU) # Vector3Dim(vecV)
    /\ res.ok

(***************************************************************************)
(* Calls made by several threads on the same operands.  Every method has a *)
(* value receiver and value parameters: a call copies the receiver, then   *)
(* the argument, into its own frame, and the body computes the result from *)
(* the frame.  res maps each thread to its frame.                          *)
(***************************************************************************)
Threads == 1..MaxThreads

ValueOps == {"Add", "Multiply", "Divide"}

VectorOps == {"Vector3.Add", "Dot", "Cross"}

ThreadValues ==
    {NewValue(FInt(1), Dim(Meter(PosZero))), NewValue(FInt(MaxMag), Dim(Meter(PosZero))),
     NewValue(FInt(-1), Dim(Second(PosZero)))}

ThreadVectors ==
    {Vector3(NewValue(FInt(1), d), NewValue(FInt(MaxMag), d), NewValue(FInt(-1), d)) :
        d \in {DimensionZero, Dim(Meter(PosZero))}}

\* what the method op returns for the receiver v and the argument other
Apply(op, v, other) ==
    CASE op = "Add" -> ValueCall(op, Add(v, other))
      [] op = "Multiply" -> Result(op, 0, PosZero, NilErr, Multiply(v, other), Vector3Zero)
      [] op = "Divide" -> Result(op, 0, PosZero, NilErr, Divide(v, other), Vector3Zero)
      [] op = "Vector3.Add" -> VectorCall(op, Vector3Add(v, other))
      [] op = "Dot" -> Result(op, 0, PosZero, NilErr, Dot(v, other), Vector3Zero)
      [] op = "Cross" -> Result(op, 0, PosZero, NilErr, ValueZero, Cross(v, other))

\* the Value or the Vector3 that op returns
Returned(op, out) == IF op \in ValueOps \cup {"Dot"} THEN out.val ELSE out.vec

\* a pointer receiver whose body stores the result in the receiver
ReceiverAfterInPlace(v, returned) == returned

\* the caller's operand after a method with a value receiver has returned:
\* the body worked on the copy
ReceiverAfter(v, returned) == v

Frame(pc, op, v, other, out) ==
    [pc |-> pc, op |-> op, v |-> v, other |-> other, out |-> out]

InitThreads ==
    /\ opA \in ThreadValues
    /\ opB \in ThreadValues
    /\ vecU \in ThreadVectors
    /\ vecV \in ThreadVectors
    /\ res = [t \in Threads |-> Frame("idle", "none", ValueZero, ValueZero, NoCall)]
    /\ steps = 0

\* the call copies the receiver into the frame
ThreadCall ==
    \E t \in Threads, op \in ValueOps \cup VectorOps :
        /\ res[t].pc = "idle"
        /\ res' = [res EXCEPT ![t] =
                      Frame("called", op, IF op \in ValueOps THEN opA ELSE vecU,
                            ValueZero, NoCall)]
        /\ UNCHANGED <<opA, opB, vecU, vecV, steps>>

\* and then the argument
ThreadLoad ==
    \E t \in Threads :
        /\ res[t].pc = "called"
        /\ res' = [res EXCEPT ![t].pc = "loaded",
                              ![t].other = IF res[t].op \in ValueOps THEN opB ELSE vecV]
        /\ UNCHANGED <<opA, opB, vecU, vecV, steps>>

\* the body runs on the frame and returns
ThreadReturn ==
    \E t \in Threads :
        LET op == res[t].op
            out == Apply(op, res[t].v, res[t].other)
        IN  /\ res[t].pc = "loaded"
            /\ res' = [res EXCEPT ![t].pc = "done", ![t].out = out]
            /\ opA' = IF op \in ValueOps THEN ReceiverAfter(opA, Returned(op, out)) ELSE opA
            \* Dot returns a Value, which is no Vector3 to put in a receiver
            /\ vecU' = IF op \in VectorOps /\ op # "Dot"
                       THEN ReceiverAfter(vecU, Returned(op, out)) ELSE vecU
            /\ UNCHANGED <<opB, vecV, steps>>

NextThreads == ThreadCall \/ ThreadLoad \/ ThreadReturn

SpecThreads == InitThreads /\ [][NextThreads]_vars

\* the operands of op as the caller holds them
Receiver(op) == IF op \in ValueOps THEN opA ELSE vecU

Argument(op) == IF op \in ValueOps THEN opB ELSE vecV

WrappedFrom(x, y) ==
    /\ x \in Int8Min..Int8Max
    /\ (x - y) % Pow2(Int8Bits) = 0

\* every exponent of d lies in -16..16
InSpecRange(d) == \A i \in 1..7 : Exps(d)[i] \in -16..16

\* C28: Multiply, Divide and Power return without error whatever the
\* exponents; each exponent of the result is the sum, difference or product
\* reduced modulo 256 into -128..127 (wrapped, not saturated); when every
\* operand exponent lies in -16..16 a single Multiply or Divide yields the
\* exact sum or difference.
C28_ExponentsWrap ==
    /\ res.op \in {"Multiply", "Divide", "Power"} => ~Failed
    /\ res.op = "Multiply" =>
          \A i \in 1..7 :
              /\ WrappedFrom(Exps(res.val.dim)[i], Exps(opA.dim)[i] + Exps(opB.dim)[i])
              /\ (InSpecRange(opA.dim) /\ InSpecRange(opB.dim)) =>
                    Exps(res.val.dim)[i] = Exps(opA.dim)[i] + Exps(opB.dim)[i]
    /\ res.op = "Divide" =>
          \A i \in 1..7 :
              /\ WrappedFrom(Exps(res.val.dim)[i], Exps(opA.dim)[i] - Exps(opB.dim)[i])
              /\ (InSpecRange(opA.dim) /\ InSpecRange(opB.dim)) =>
                    Exps(res.val.dim)[i] = Exps(opA.dim)[i] - Exps(opB.dim)[i]
    /\ res.op = "Power" =>
          \A i \in 1..7 : WrappedFrom(Exps(res.val.dim)[i], Exps(opA.dim)[i] * res.n)

\* a Multiply whose exponent sum 100 + 100 comes back as -56
C28_Witness ==
    /\ res.op = "Multiply"
    /\ opA.dim.L = 100
    /\ opB.dim.L = 100
    /\ ~Failed
    /\ res.val.dim.L = -56

\* the sum (sign = 1) or difference (sign = -1) of a and b where their
\* dimensions agree, and the zero dimensionless Value where they do not
SumOrZero(a, b, sign) ==
    IF DimsDiffer(Dim(a), Dim(b)) THEN ValueZero
    ELSE NewValue(IF sign = 1 THEN FAdd(Val(a), Val(b)) ELSE FSub(Val(a), Val(b)), Dim(a))

\* the product of the magnitudes with the wrapped sums of the exponents
Product(a, b) ==
    [value |-> FMul(Val(a), Val(b)),
     dim |-> [f \in DOMAIN Dim(a) |-> Wrap8(Dim(a)[f] + Dim(b)[f])]]

\* C29: Dot and Cross have no error outcome; on vectors of mixed dimensions
\* each internal Add or Subtract that fails is ignored and its result
\* replaced by the zero dimensionless Value, the computation goes on with
\* that value, and a normal Value or Vector3 is returned.
C29_FailuresReplacedByZero ==
    /\ res.op = "Dot" =>
          /\ ~Failed
          /\ res.val = SumOrZero(SumOrZero(Product(vecU.X, vecV.X),
                                          Product(vecU.Y, vecV.Y), 1),
                                Product(vecU.Z, vecV.Z), 1)
    /\ res.op = "Cross" =>
          /\ ~Failed
          /\ res.vec.X = SumOrZero(Product(vecU.Y, vecV.Z), Product(vecU.Z, vecV.Y), -1)
          /\ res.vec.Y = SumOrZero(Product(vecU.Z, vecV.X), Product(vecU.X, vecV.Z), -1)
          /\ res.vec.Z = SumOrZero(Product(vecU.X, vecV.Y), Product(vecU.Y, vecV.X), -1)

\* a Dot whose first Add failed and whose second Add went on from zero
C29_Witness ==
    /\ res.op = "Dot"
    /\ DotAdd1(vecU, vecV).err # NilErr
    /\ DotAdd2(vecU, vecV).err = NilErr
    /\ res.val.dim = DimensionZero
    /\ res.val.value = FInt(1)

RECURSIVE MultiplyTimes(_, _)
\* v multiplied n times: v.Multiply(v)...Multiply(v) with n factors, n >= 1
MultiplyTimes(v, n) == IF n = 1 THEN v ELSE Multiply(MultiplyTimes(v, n - 1), v)

RECURSIVE DivideTimes(_, _, _)
\* acc divided n times by v
DivideTimes(acc, v, n) == IF n = 0 THEN acc ELSE DivideTimes(Divide(acc, v), v, n - 1)

\* C30: on dimensions Power agrees with repeated Multiply: for n >= 1
\* Power(v, n).dim is the dimension of v multiplied n times, Power(v, -n).dim
\* that of Dimensionless(1) divided n times by v, and Power(v, 2).dim is
\* Multiply(v, v).dim.
C30_PowerIsRepeatedMultiply ==
    res.op = "Power" =>
        /\ res.n >= 1 => Dim(res.val) = Dim(MultiplyTimes(opA, res.n))
        /\ res.n <= -1 =>
              Dim(res.val) = Dim(DivideTimes(Dimensionless(FInt(1)), opA, -res.n))
        /\ res.n = 2 => Dim(res.val) = Dim(Multiply(opA, opA))

\* a cube whose exponent 3 * 100 has left int8 on both sides
C30_Witness ==
    /\ res.op = "Power"
    /\ res.n = MaxPow
    /\ opA.dim.L = 100
    /\ Dim(res.val).L = Wrap8(100 * MaxPow)
    /\ Dim(res.val).L # 100 * MaxPow
    /\ Dim(res.val) = Dim(MultiplyTimes(opA, MaxPow))

====
